---- MODULE Spec2Model ----
(***************************************************************************)
(* Library synchronisation of the completed-games tracker:                 *)
(* utilities/steam_api.py (get_owned_games, get_app_details,               *)
(* refresh_library_cache) over the JSON documents of                       *)
(* utilities/file_helpers.py.                                              *)
(***************************************************************************)
EXTENDS Integers, Sequences, FiniteSets, TLC

VARIABLES
    library_file,    \* data/library.json
    dlc_file,        \* data/dlc.json
    config_file,     \* config/config.json
    completed_file,  \* data/completed.json
    store_mode,      \* how the store answers app-details for the bulk of the catalogue
    rf,              \* per invocation of refresh_library_cache: its locals and its trace
    last_failed,     \* the appids whose lookup failed in the invocation that ended last
    last_run,        \* the invocation that ended last: its outcome and what upstream delivered
    out,             \* the response of the route handler that answered last
    uuids,           \* how many ids uuid.uuid4() has handed out
    last_saved       \* per document: what the last save that succeeded wrote, of the
                     \* saves made since no invocation was under way

vars == <<library_file, dlc_file, config_file, completed_file, store_mode, rf,
          last_failed, last_run, out, uuids, last_saved>>

(* ------------------------------ bounds --------------------------------- *)

\* steam_api.py:139  games_to_check[:50]
Quota == 50

\* The largest upstream library holds Quota + Over games.
Over == 2

\* Timestamps a refresh can read from the clock: 1..MaxTime.
MaxTime == 1

\* The invocations of refresh_library_cache (request handlers).
Procs == {"r1", "r2"}

(* --------------------------- app ids, names ---------------------------- *)

\* An appid is an int (as Steam delivers it) or a str (as str() makes it).
IntId(n) == <<"int", n>>
StrId(n) == <<"str", n>>
NoId == StrId(0)

\* Python's str() on an appid.
Str(x) == <<"str", x[2]>>

MaxGames == Quota + Over

\* The games whose app-details answer is drawn freely at every call; the
\* other games (the bulk) answer as store_mode says.
FreeNums == {MaxGames - 1, MaxGames}

\* Character codes: "A".."Z" are 65..90, "a".."z" are 97..122.
LowerChar(c) == IF c >= 65 /\ c <= 90 THEN c + 32 ELSE c

\* str.lower()
Lower(s) == [i \in 1..Len(s) |-> LowerChar(s[i])]

\* Python's < on two strings (sequences of codes).
RECURSIVE StrLess(_, _)
StrLess(a, b) ==
    IF b = <<>> THEN FALSE
    ELSE IF a = <<>> THEN TRUE
    ELSE IF a[1] # b[1] THEN a[1] < b[1]
    ELSE StrLess(Tail(a), Tail(b))

\* The upstream name of game n: two letters, upper case for even n, so that
\* the lower-cased names are ordered as the numbers are.
NameOf(n) ==
    LET hi == 97 + (n \div 26)
        lo == 97 + (n % 26)
    IN  IF n % 2 = 0 THEN <<hi - 32, lo - 32>> ELSE <<hi, lo>>

\* One entry of the owned-games list. name_state: "present", "absent" (no
\* "name" key) or "null" ("name": null).
Game(n) == [appid |-> IntId(n), name_state |-> "present", name |-> NameOf(n)]
NamelessGame(n) == [appid |-> IntId(n), name_state |-> "absent", name |-> <<>>]
NullNameGame(n) == [appid |-> IntId(n), name_state |-> "null", name |-> <<>>]

\* Upstream delivers the games n, n-1, .. 1 (not in name order).
Descending(hi, lo) == [i \in 1..(hi - lo + 1) |-> Game(hi - i + 1)]

(* ------------------------- get_owned_games ----------------------------- *)

\* x.get("name", "z").lower() for an entry whose name is not null
SortKey(game) ==
    IF game.name_state = "present" THEN Lower(game.name) ELSE <<122>>

\* list.sort is stable: an entry goes after the entries already placed
\* whose key is not greater than its own.
InsertByKey(game, sorted) ==
    LET at == Cardinality({j \in 1..Len(sorted) :
                            ~StrLess(SortKey(game), SortKey(sorted[j]))})
    IN  SubSeq(sorted, 1, at) \o <<game>> \o SubSeq(sorted, at + 1, Len(sorted))

\* The entries from the i-th on, placed one by one into acc (the CHOOSE over
\* a one-element set only names the intermediate list).
RECURSIVE SortFrom(_, _, _)
SortFrom(games, i, acc) ==
    IF i > Len(games) THEN acc
    ELSE CHOOSE done \in {SortFrom(games, i + 1, placed) :
                            placed \in {InsertByKey(games[i], acc)}} : TRUE

\* games.sort(key=lambda x: x.get("name", "z").lower())
SortByName(games) == SortFrom(games, 1, <<>>)

\* None.lower() raises AttributeError
SortRaises(games) == \E i \in 1..Len(games) : games[i].name_state = "null"

\* The outcomes of the GET on the owned-games endpoint.
\*   kind: "network_error" (RequestException), "http_error" (raise_for_status),
\*         "bad_json" (response.json() raises a ValueError; where requests
\*         raises its own JSONDecodeError, a RequestException, the outcome
\*         is that of "network_error"), "bad_shape" (the body parses and
\*         has a "response" member that is null or a scalar, or a "games"
\*         member that is null: `"games" not in data["response"]` raises
\*         TypeError, games.sort raises AttributeError), "ok"
\*   body (kind "ok"): has_data (not null/empty), has_response, has_games,
\*         games, has_count, game_count
OwnedResponse(kind, status, has_data, has_response, has_games, games, has_count, game_count) ==
    [kind |-> kind, status |-> status, has_data |-> has_data,
     has_response |-> has_response, has_games |-> has_games, games |-> games,
     has_count |-> has_count, game_count |-> game_count]

OwnedFailure(kind, status) ==
    OwnedResponse(kind, status, FALSE, FALSE, FALSE, <<>>, FALSE, 0)

OwnedOk(games) == OwnedResponse("ok", 200, TRUE, TRUE, TRUE, games, TRUE, Len(games))

MsgInvalid == "Invalid response from Steam API. Check ID or profile privacy."
MsgAccessDenied == "Access Denied. Check your Steam API Key."
MsgBadRequest == "Bad Request. Check your Steam ID (it should be a 64-bit ID)."
MsgHttp == "HTTP Error"
MsgNetwork == "Network Error"
MsgUnexpected == "An unexpected error occurred"

Owned(success, result, message, total_count) ==
    [success |-> success, result |-> result, message |-> message,
     total_count |-> total_count]

\* get_owned_games(api_key, steam_id), given what the GET produced: the
\* tuple (success, games or message, total_count).
get_owned_games(resp) ==
    IF resp.kind = "http_error" THEN
        IF resp.status = 401 \/ resp.status = 403
        THEN Owned(FALSE, <<>>, MsgAccessDenied, 0)
        ELSE IF resp.status = 400
        THEN Owned(FALSE, <<>>, MsgBadRequest, 0)
        ELSE Owned(FALSE, <<>>, MsgHttp, 0)
    ELSE IF resp.kind = "network_error" THEN Owned(FALSE, <<>>, MsgNetwork, 0)
    ELSE IF resp.kind = "bad_json" THEN Owned(FALSE, <<>>, MsgUnexpected, 0)
    ELSE IF resp.kind = "bad_shape" THEN Owned(FALSE, <<>>, MsgUnexpected, 0)
    ELSE IF ~resp.has_data \/ ~resp.has_response \/ ~resp.has_games
    THEN Owned(FALSE, <<>>, MsgInvalid, 0)
    ELSE IF SortRaises(resp.games) THEN Owned(FALSE, <<>>, MsgUnexpected, 0)
    ELSE Owned(TRUE, SortByName(resp.games), "",
               IF resp.has_count THEN resp.game_count ELSE Len(resp.games))

(* ------------------------- get_app_details ----------------------------- *)

\* The "data" member of the store's answer for one appid.
\*   present: the member exists and is not null; empty: it is [] or {};
\*   has_dlc: it has a "dlc" key; dlc: the list under that key.
Details(present, empty, has_dlc, dlc) ==
    [present |-> present, empty |-> empty, has_dlc |-> has_dlc, dlc |-> dlc]

NoDetails == Details(FALSE, FALSE, FALSE, <<>>)

\* The outcomes of the GET on the app-details endpoint.
\*   kind: "network_error", "http_error", "bad_json", "ok"
\*   body (kind "ok"): has_entry (str(appid) is a key), success (the flag is
\*   true), data
DetailsResponse(kind, has_entry, success, data) ==
    [kind |-> kind, has_entry |-> has_entry, success |-> success, data |-> data]

\* The DLC lists the store can report for a game.
DlcLists == {<<901>>, <<901, 902>>}

DetailsFailures ==
    {DetailsResponse("network_error", FALSE, FALSE, NoDetails),
     DetailsResponse("http_error", FALSE, FALSE, NoDetails),
     DetailsResponse("bad_json", FALSE, FALSE, NoDetails),
     DetailsResponse("ok", FALSE, FALSE, NoDetails),
     DetailsResponse("ok", TRUE, FALSE, NoDetails)}

DetailsSuccesses ==
    {DetailsResponse("ok", TRUE, TRUE, NoDetails),
     DetailsResponse("ok", TRUE, TRUE, Details(TRUE, TRUE, FALSE, <<>>)),
     DetailsResponse("ok", TRUE, TRUE, Details(TRUE, FALSE, FALSE, <<>>)),
     DetailsResponse("ok", TRUE, TRUE, Details(TRUE, FALSE, TRUE, <<>>))}
    \cup {DetailsResponse("ok", TRUE, TRUE, Details(TRUE, FALSE, TRUE, l)) : l \in DlcLists}

DetailsResponses == DetailsFailures \cup DetailsSuccesses

\* get_app_details(appid), given what the GET produced: (success, data).
get_app_details(resp) ==
    IF resp.kind = "ok" /\ resp.has_entry /\ resp.success
    THEN <<TRUE, resp.data>>
    ELSE <<FALSE, NoDetails>>

\* Python truth of the data: None, {} and [] are false.
Truthy(details) == details.present /\ ~details.empty

(* --------------------------- file_helpers ------------------------------ *)

\* A JSON file: st is "ok" (holds doc), "corrupt" (not parseable) or "missing".
File(st, doc) == [st |-> st, doc |-> doc]

EmptyMap == [k \in {} |-> <<>>]

\* setup_files: the documents written when a file does not exist.
\* A member of the config dict: config.get(k) is None when it is not present.
Cred(present, value) == [present |-> present, value |-> value]
Config(api_key, steam_id) == [steam_api_key |-> api_key, steam_id |-> steam_id]
DefaultConfig == Config(Cred(TRUE, ""), Cred(TRUE, ""))
DefaultLibrary == [last_updated |-> 0, has_game_count |-> FALSE, game_count |-> 0, games |-> <<>>]
DefaultDlc == [dlc |-> EmptyMap]
DefaultCompleted == <<>>

\* open(path, "w") then json.dump, inside try/except returning False:
\*   "written"   the document is on disk, returns True
\*   "refused"   open() raised: the file is as it was, returns False
\*   "truncated" open() truncated the file and the write raised: the file
\*               holds no parseable document, returns False
SaveOutcomes == {"written", "refused", "truncated"}

FileAfterSave(file, doc, outcome, blank) ==
    IF outcome = "written" THEN File("ok", doc)
    ELSE IF outcome = "truncated" THEN File("corrupt", blank)
    ELSE file

Saved(outcome) == outcome = "written"

\* save_library_cache(library_data): the file afterwards
save_library_cache(file, library_data, outcome) ==
    FileAfterSave(file, library_data, outcome, DefaultLibrary)

\* save_dlc_cache(dlc_data): the file afterwards
save_dlc_cache(file, dlc_data, outcome) ==
    FileAfterSave(file, dlc_data, outcome, DefaultDlc)

\* The document on disk not read: the default whatever the file holds.
load_dlc_cache_blank(file) ==
    [raised |-> file.st = "corrupt", doc |-> DefaultDlc]

\* load_dlc_cache(): json.load raises on a file that is not parseable
load_dlc_cache(file) ==
    IF file.st = "missing" THEN [raised |-> FALSE, doc |-> DefaultDlc]
    ELSE IF file.st = "corrupt" THEN [raised |-> TRUE, doc |-> DefaultDlc]
    ELSE [raised |-> FALSE, doc |-> file.doc]

\* load_config(): {} when the file does not exist; json.load raises on a
\* file that is not parseable
EmptyConfig == Config(Cred(FALSE, ""), Cred(FALSE, ""))

load_config(file) ==
    IF file.st = "missing" THEN [raised |-> FALSE, doc |-> EmptyConfig]
    ELSE IF file.st = "corrupt" THEN [raised |-> TRUE, doc |-> EmptyConfig]
    ELSE [raised |-> FALSE, doc |-> file.doc]

\* load_library_cache(): the default when the file does not exist;
\* json.load raises on a file that is not parseable
load_library_cache(file) ==
    IF file.st = "missing" THEN [raised |-> FALSE, doc |-> DefaultLibrary]
    ELSE IF file.st = "corrupt" THEN [raised |-> TRUE, doc |-> DefaultLibrary]
    ELSE [raised |-> FALSE, doc |-> file.doc]

\* load_completed_log(): [] when the file does not exist, and [] when
\* json.load raises JSONDecodeError
load_completed_log(file) ==
    IF file.st = "ok" THEN [raised |-> FALSE, doc |-> file.doc]
    ELSE [raised |-> FALSE, doc |-> DefaultCompleted]

\* save_config(config_data): the file afterwards
save_config(file, config_data, outcome) ==
    FileAfterSave(file, config_data, outcome, EmptyConfig)

\* save_completed_log(log_data): the file afterwards
save_completed_log(file, log_data, outcome) ==
    FileAfterSave(file, log_data, outcome, DefaultCompleted)

(* ------------------------------ inputs --------------------------------- *)

\* The config dicts refresh_library_cache is called with.
CredValues == {Cred(FALSE, ""), Cred(TRUE, ""), Cred(TRUE, "x")}
Configs == {Config(k, i) : k \in CredValues, i \in CredValues}

\* not config.get(k)
Blank(cred) == ~cred.present \/ cred.value = ""

\* The owned-games lists upstream can deliver: none, the free games alone,
\* the whole catalogue of Quota + Over games, and lists with an entry that
\* has no name or a null name.
Libraries ==
    {<<>>, Descending(MaxGames, MaxGames - 1), Descending(MaxGames, 1),
     <<Game(MaxGames), NamelessGame(MaxGames - 1)>>,
     <<NullNameGame(MaxGames), Game(MaxGames - 1)>>}

OwnedResponses ==
    {OwnedFailure("network_error", 0), OwnedFailure("bad_json", 200),
     OwnedFailure("bad_shape", 200),
     OwnedFailure("http_error", 400), OwnedFailure("http_error", 401),
     OwnedFailure("http_error", 403), OwnedFailure("http_error", 500),
     OwnedFailure("ok", 200),
     OwnedResponse("ok", 200, TRUE, TRUE, FALSE, <<>>, FALSE, 0),
     OwnedResponse("ok", 200, TRUE, TRUE, TRUE, <<>>, FALSE, 0),
     OwnedResponse("ok", 200, TRUE, TRUE, TRUE, <<Game(MaxGames)>>, TRUE, 2)}
    \cup {OwnedOk(l) : l \in Libraries}

Times == 1..MaxTime

\* How the store answers for the bulk games: with a DLC list, with an empty
\* data member (a game that has no DLC), or not at all.
StoreModes == {"dlc", "no_dlc", "down"}

BulkResponse(mode) ==
    IF mode = "dlc"
    THEN DetailsResponse("ok", TRUE, TRUE, Details(TRUE, FALSE, TRUE, <<901>>))
    ELSE IF mode = "no_dlc"
    THEN DetailsResponse("ok", TRUE, TRUE, Details(TRUE, TRUE, FALSE, <<>>))
    ELSE DetailsResponse("network_error", FALSE, FALSE, NoDetails)

\* What the GET for appid can produce.
StoreAnswers(appid, mode) ==
    IF appid[2] \in FreeNums THEN DetailsResponses ELSE {BulkResponse(mode)}

(* ----------------------- refresh_library_cache ------------------------- *)

MsgMissing == "API Key or Steam ID is missing from configuration."
MsgSaveFailed == "Successfully fetched data but failed to save the main library cache file."
MsgRefreshed == "Library refreshed successfully"

\* What the invocation handed back: kind "return" (the tuple success,
\* message; a success message carries total_count and dlc_fetch_count),
\* "raise" (an exception left the function) or "none" (not yet).
Ret(kind, success, message, total_count, dlc_fetch_count) ==
    [kind |-> kind, success |-> success, message |-> message,
     total_count |-> total_count, dlc_fetch_count |-> dlc_fetch_count]

NoRet == Ret("none", FALSE, "", 0, 0)
Failure(message) == Ret("return", FALSE, message, 0, 0)

\* One entry of an invocation's trace: a network call (with what it
\* returned), a sleep or a save.
Event(op, appid, ok, details) ==
    [op |-> op, appid |-> appid, ok |-> ok, details |-> details]

Snapshot(lib, dlc, cfg, log) ==
    [library_file |-> lib, dlc_file |-> dlc, config_file |-> cfg, completed_file |-> log]

\* What is kept of an invocation that has ended: whether it returned
\* success, and the owned-games list upstream delivered to it.
LastRun(success, upstream) ==
    [success |-> success, upstream |-> IF success THEN upstream ELSE <<>>]

\* No save of the document has succeeded yet.
NoSaves ==
    [library_file |-> File("none", DefaultLibrary), dlc_file |-> File("none", DefaultDlc)]

\* The locals of an invocation that is not running (with what the trace
\* keeps beside them: events, loaded, written, upstream, response, pre, and
\* the route handler that called it, "none" for another caller).
IdleRf ==
    [pc |-> "idle", config |-> DefaultConfig,
     result |-> <<>>, message |-> "", total_count |-> 0,
     current_dlc_map |-> EmptyMap, games_to_check |-> <<>>, next |-> 1,
     dlc_fetch_count |-> 0, ret |-> NoRet,
     events |-> <<>>, loaded |-> EmptyMap, written |-> DefaultLibrary,
     upstream |-> <<>>, response |-> OwnedFailure("none", 0), caller |-> "none",
     pre |-> Snapshot(File("ok", DefaultLibrary), File("ok", DefaultDlc),
                      File("ok", DefaultConfig), File("ok", DefaultCompleted))]

\* library_data = {"last_updated": now, "game_count": total_count, "games": result}
LibraryData(now, total_count, result) ==
    [last_updated |-> now, has_game_count |-> TRUE, game_count |-> total_count,
     games |-> result]

\* games_to_check with game["appid"] compared as delivered, without str()
GamesToCheckRaw(result, fetched_appids) ==
    SelectSeq(result, LAMBDA game : game.appid \notin fetched_appids)

\* games_to_check: the games whose str(appid) is not a key of the DLC map
GamesToCheck(result, fetched_appids) ==
    SelectSeq(result, LAMBDA game : Str(game.appid) \notin fetched_appids)

\* games_to_check without the [:50]
QuotaSliceAll(games) == games

\* games_to_check[:50]
QuotaSlice(games) ==
    SubSeq(games, 1, IF Len(games) < Quota THEN Len(games) ELSE Quota)

\* The lookup recorded whatever it returned.
RecordsAlways(success, details) == TRUE

\* if success and details:
Records(success, details) == success /\ Truthy(details)

\* The value stored for a game whose lookup is recorded.
DlcValue(details) ==
    IF details.has_dlc /\ details.dlc # <<>> THEN details.dlc ELSE <<>>

\* The map replaced by the one key.
MapSetAlone(map, appid, value) == [k \in {appid} |-> value]

\* current_dlc_map[appid] = value
MapSet(map, appid, value) ==
    [k \in DOMAIN map \cup {appid} |-> IF k = appid THEN value ELSE map[k]]

\* The loop body's effect on the map.
MapAfterLookup(map, appid, success, details) ==
    IF Records(success, details) THEN MapSet(map, appid, DlcValue(details)) ELSE map

\* The counter raised for every lookup that returned success.
CountAfterLookupLoose(count, success, details) ==
    IF success THEN count + 1 ELSE count

\* dlc_fetch_count += 1, inside the `if success and details` block
CountAfterLookup(count, success, details) ==
    IF Records(success, details) THEN count + 1 ELSE count

\* time.sleep(0.05) is inside the `if success and details` block.
Sleeps(success, details) == Records(success, details)

\* The credentials check with `and` for `or`.
RetAfterCheckBoth(config) ==
    IF Blank(config.steam_api_key) /\ Blank(config.steam_id)
    THEN Failure(MsgMissing) ELSE NoRet

\* Lines 101-102: the credentials check.
RetAfterCheck(config) ==
    IF Blank(config.steam_api_key) \/ Blank(config.steam_id)
    THEN Failure(MsgMissing) ELSE NoRet

\* The success flag of get_owned_games ignored.
RetAfterFetchIgnored(owned) == NoRet

\* Lines 107-108: a failed fetch returns its message.
RetAfterFetch(owned) ==
    IF ~owned.success THEN Failure(owned.message) ELSE NoRet

\* The result of save_library_cache ignored.
RetAfterSaveLibraryIgnored(saved) == NoRet

\* Lines 118-122: a failed save of the library returns failure.
RetAfterSaveLibrary(saved) ==
    IF ~saved THEN Failure(MsgSaveFailed) ELSE NoRet

\* A failed save of the DLC document made fatal.
RetAfterSaveDlcStrict(saved, total_count, dlc_fetch_count) ==
    IF saved THEN Ret("return", TRUE, MsgRefreshed, total_count, dlc_fetch_count)
    ELSE Failure(MsgSaveFailed)

\* Lines 156-161: the outcome of save_dlc_cache is only printed.
RetAfterSaveDlc(saved, total_count, dlc_fetch_count) ==
    Ret("return", TRUE, MsgRefreshed, total_count, dlc_fetch_count)

\* The function goes on to `step` unless it has returned.
PcAfter(ret, step) == IF ret.kind = "none" THEN step ELSE "done"

Append2(events, e, also, f) == IF also THEN events \o <<e, f>> ELSE Append(events, e)

\* refresh_library_cache(config) is entered: lines 98-102.
Call(p, config) ==
    /\ rf[p].pc = "idle"
    /\ LET ret == RetAfterCheck(config)
       IN  rf' = [rf EXCEPT ![p] =
                    [IdleRf EXCEPT
                        !.pc = PcAfter(ret, "get_owned_games"),
                        !.config = config,
                        !.ret = ret,
                        !.pre = Snapshot(library_file, dlc_file, config_file,
                                         completed_file)]]
    /\ UNCHANGED <<library_file, dlc_file, config_file, completed_file, store_mode, last_failed, last_run, out, uuids, last_saved>>

\* Lines 105-108: the owned-games call.
FetchOwnedGames(p, resp) ==
    /\ rf[p].pc = "get_owned_games"
    /\ \E owned \in {get_owned_games(resp)} :
        LET ret == RetAfterFetch(owned)
        IN  rf' = [rf EXCEPT ![p] =
                    [@ EXCEPT
                        !.pc = PcAfter(ret, "save_library_cache"),
                        !.result = owned.result,
                        !.message = owned.message,
                        !.total_count = owned.total_count,
                        !.ret = ret,
                        !.upstream = resp.games,
                        !.response = resp,
                        !.events = Append(@, Event("get_owned_games", NoId, owned.success, NoDetails))]]
    /\ UNCHANGED <<library_file, dlc_file, config_file, completed_file, store_mode, last_failed, last_run, out, uuids, last_saved>>

\* Lines 112-122: the library document is built and saved.
SaveLibrary(p, now, outcome) ==
    /\ rf[p].pc = "save_library_cache"
    /\ LET library_data == LibraryData(now, rf[p].total_count, rf[p].result)
           ret == RetAfterSaveLibrary(Saved(outcome))
       IN  /\ library_file' = save_library_cache(library_file, library_data, outcome)
           /\ last_saved' = IF Saved(outcome)
                            THEN [last_saved EXCEPT !.library_file = File("ok", library_data)]
                            ELSE last_saved
           /\ rf' = [rf EXCEPT ![p] =
                    [@ EXCEPT
                        !.pc = PcAfter(ret, "load_dlc_cache"),
                        !.ret = ret,
                        !.written = library_data,
                        !.events = Append(@, Event("save_library_cache", NoId, Saved(outcome), NoDetails))]]
    /\ UNCHANGED <<dlc_file, config_file, completed_file, store_mode, last_failed, last_run, out, uuids>>

\* Lines 126-134: the DLC document is loaded and the games to check chosen.
LoadDlc(p) ==
    /\ rf[p].pc = "load_dlc_cache"
    /\ LET dlc_cache == load_dlc_cache(dlc_file)
           current_dlc_map == dlc_cache.doc.dlc
           fetched_appids == DOMAIN current_dlc_map
       IN  rf' = [rf EXCEPT ![p] =
                    IF dlc_cache.raised
                    THEN [@ EXCEPT !.pc = "done", !.ret = Ret("raise", FALSE, "", 0, 0)]
                    ELSE [@ EXCEPT
                            !.pc = "dlc_loop",
                            !.current_dlc_map = current_dlc_map,
                            !.loaded = current_dlc_map,
                            !.games_to_check = GamesToCheck(rf[p].result, fetched_appids),
                            !.next = 1,
                            !.dlc_fetch_count = 0]]
    /\ UNCHANGED <<library_file, dlc_file, config_file, completed_file, store_mode, last_failed, last_run, out, uuids, last_saved>>

\* Lines 139-152: one turn of the loop over games_to_check[:50].
CheckGame(p, resp) ==
    /\ rf[p].pc = "dlc_loop"
    /\ rf[p].next <= Len(QuotaSlice(rf[p].games_to_check))
    /\ LET game == QuotaSlice(rf[p].games_to_check)[rf[p].next]
           appid == Str(game.appid)
           got == get_app_details(resp)
           success == got[1]
           details == got[2]
       IN  /\ resp \in StoreAnswers(appid, store_mode)
           /\ rf' = [rf EXCEPT ![p] =
                    [@ EXCEPT
                        !.current_dlc_map = MapAfterLookup(@, appid, success, details),
                        !.dlc_fetch_count = CountAfterLookup(@, success, details),
                        !.next = @ + 1,
                        !.events = Append2(@, Event("get_app_details", appid, success, details),
                                           Sleeps(success, details),
                                           Event("sleep", NoId, TRUE, NoDetails))]]
    /\ UNCHANGED <<library_file, dlc_file, config_file, completed_file, store_mode, last_failed, last_run, out, uuids, last_saved>>

\* Lines 155-161: the DLC document is saved and the summary returned.
SaveDlc(p, outcome) ==
    /\ rf[p].pc = "dlc_loop"
    /\ rf[p].next > Len(QuotaSlice(rf[p].games_to_check))
    /\ LET new_dlc_cache == [dlc |-> rf[p].current_dlc_map]
           ret == RetAfterSaveDlc(Saved(outcome), rf[p].total_count, rf[p].dlc_fetch_count)
       IN  /\ dlc_file' = save_dlc_cache(dlc_file, new_dlc_cache, outcome)
           /\ last_saved' = IF Saved(outcome)
                            THEN [last_saved EXCEPT !.dlc_file = File("ok", new_dlc_cache)]
                            ELSE last_saved
           /\ rf' = [rf EXCEPT ![p] =
                    [@ EXCEPT
                        !.pc = "done",
                        !.ret = ret,
                        !.events = Append(@, Event("save_dlc_cache", NoId, Saved(outcome), NoDetails))]]
    /\ UNCHANGED <<library_file, config_file, completed_file, store_mode, last_failed, last_run, out, uuids>>

\* The appids of the app-details calls of a trace, in call order.
Lookups(events) == SelectSeq(events, LAMBDA e : e.op = "get_app_details")

\* The appids whose app-details call came back without success.
FailedLookups(events) ==
    {events[i].appid : i \in {j \in 1..Len(events) :
        events[j].op = "get_app_details" /\ ~events[j].ok}}

\* The caller has the invocation's outcome; its locals are gone.
Finish(p) ==
    /\ rf[p].pc = "done"
    /\ rf' = [rf EXCEPT ![p] = IdleRf]
    /\ last_failed' = FailedLookups(rf[p].events)
    /\ last_run' = LastRun(rf[p].ret.kind = "return" /\ rf[p].ret.success, rf[p].upstream)
    /\ last_saved' = IF \A q \in Procs \ {p} : rf[q].pc = "idle" THEN NoSaves ELSE last_saved
    /\ UNCHANGED <<library_file, dlc_file, config_file, completed_file, store_mode, out, uuids>>

(* ---------------------- routes on the completed log -------------------- *)

\* At most MaxUuids entries are made by api_log_completion, and the log
\* holds at most MaxLog entries.
MaxUuids == 2
MaxLog == 2

\* A request member that is absent, null, "" or 0: `not data.get("appid")`.
NoAppid == <<"none", 0>>

\* The "id" of an entry that has none: entry.get("id") is None.
NoLogId == 0

\* An entry of completed.json. The members game_name, completion_date,
\* notes, collection_name and logged_at are carried along and never read by
\* the handlers below.
Entry(id, appid, is_dlc_expansion) ==
    [id |-> id, appid |-> appid, is_dlc_expansion |-> is_dlc_expansion]

\* What a handler answered: the route, the HTTP status, the request it
\* answered, the completed-log file as it was when the request came in,
\* how the handler's save went ("none" when it saved nothing), and the
\* JSON body.
Response(op, status, req, before, saved, body) ==
    [op |-> op, status |-> status, req |-> req, before |-> before,
     saved |-> saved, body |-> body]

Body(total_games, completed_count, results) ==
    [total_games |-> total_games, completed_count |-> completed_count,
     results |-> results]

NoBody == Body(0, 0, <<>>)
NoResponse == Response("none", 0, <<>>, File("ok", DefaultCompleted), "none", NoBody)

\* The JSON of a POST on /log: has_json (request.get_json() gives a dict),
\* game_name (the member is truthy), appid (as sent: int or str, or
\* NoAppid), has_flag and flag (the member "is_dlc_expansion").
LogData(has_json, game_name, appid, has_flag, flag) ==
    [has_json |-> has_json, game_name |-> game_name, appid |-> appid,
     has_flag |-> has_flag, flag |-> flag]

\* any(entry.get("appid") == data["appid"] for entry in log): the stored
\* value against the value as sent
IsDuplicate(log, appid) == \E i \in 1..Len(log) : log[i].appid = appid

\* api_log_completion: the status it answers with.
LogStatus(data, log) ==
    IF ~data.has_json THEN 500
    ELSE IF ~data.game_name \/ data.appid = NoAppid THEN 400
    ELSE IF IsDuplicate(log, data.appid) THEN 409
    ELSE 201

\* new_entry: id = str(uuid.uuid4()), appid = str(data["appid"]),
\* is_dlc_expansion = data.get("is_dlc_expansion", False)
NewEntry(uuid, data) == Entry(uuid, Str(data.appid), data.has_flag /\ data.flag)

\* POST /log (api.py). The result of save_completed_log is not looked at.
ApiLogCompletion(data, outcome) ==
    /\ LET log == load_completed_log(completed_file).doc
           status == LogStatus(data, log)
       IN  /\ status = 201 => uuids < MaxUuids /\ Len(log) < MaxLog
           /\ status # 201 => outcome = "written"
           /\ completed_file' =
                IF status = 201
                THEN save_completed_log(completed_file,
                                        Append(log, NewEntry(uuids + 1, data)), outcome)
                ELSE completed_file
           /\ uuids' = IF status = 201 THEN uuids + 1 ELSE uuids
           /\ out' = Response("api_log_completion", status, data, completed_file,
                              IF status = 201 THEN outcome ELSE "none", NoBody)
    /\ UNCHANGED <<library_file, dlc_file, config_file, store_mode, rf, last_failed, last_run, last_saved>>

\* The filter with == for !=.
WithId(log, log_id) == SelectSeq(log, LAMBDA entry : entry.id = log_id)

\* new_log = [entry for entry in log if entry.get("id") != log_id]
WithoutId(log, log_id) == SelectSeq(log, LAMBDA entry : entry.id # log_id)

\* DELETE /log/<log_id> (api.py). The result of save_completed_log is not
\* looked at.
ApiDeleteLogEntry(log_id, outcome) ==
    /\ LET log == load_completed_log(completed_file).doc
           new_log == WithoutId(log, log_id)
           found == Len(new_log) # Len(log)
       IN  /\ ~found => outcome = "written"
           /\ completed_file' =
                IF found THEN save_completed_log(completed_file, new_log, outcome)
                ELSE completed_file
           /\ out' = Response("api_delete_log_entry", IF found THEN 200 ELSE 404,
                              log_id, completed_file,
                              IF found THEN outcome ELSE "none", NoBody)
    /\ UNCHANGED <<library_file, dlc_file, config_file, store_mode, rf, last_failed, last_run, uuids, last_saved>>

\* POST /api/completed_log (app.py): request.json is appended as it is;
\* is_dict is false for a body that is empty or not a JSON object.
HandleCompletedLog(is_dict, new_entry, outcome) ==
    /\ LET log_data == load_completed_log(completed_file).doc
       IN  /\ is_dict => Len(log_data) < MaxLog
           /\ ~is_dict => outcome = "written"
           /\ completed_file' =
                IF is_dict
                THEN save_completed_log(completed_file, Append(log_data, new_entry), outcome)
                ELSE completed_file
           /\ out' = Response("handle_completed_log",
                              IF ~is_dict THEN 400 ELSE IF Saved(outcome) THEN 201 ELSE 500,
                              new_entry, completed_file,
                              IF is_dict THEN outcome ELSE "none", NoBody)
    /\ UNCHANGED <<library_file, dlc_file, config_file, store_mode, rf, last_failed, last_run, uuids, last_saved>>

\* The set built from the entries that are not DLC expansions.
CompletedAppidsMain(completed_log) ==
    {completed_log[i].appid :
        i \in {j \in 1..Len(completed_log) :
                completed_log[j].appid # NoAppid /\ ~completed_log[j].is_dlc_expansion}}

\* completed_appids = {entry["appid"] for entry in completed_log if entry.get("appid")}
CompletedAppids(completed_log) ==
    {completed_log[i].appid :
        i \in {j \in 1..Len(completed_log) : completed_log[j].appid # NoAppid}}

\* The count with game.get("appid") compared as it is, without str().
CompletedCountRaw(games, completed_appids) ==
    Cardinality({i \in 1..Len(games) : games[i].appid \in completed_appids})

\* sum(1 for game in games if str(game.get("appid")) in completed_appids)
CompletedCount(games, completed_appids) ==
    Cardinality({i \in 1..Len(games) : Str(games[i].appid) \in completed_appids})

\* GET /library/stats (api.py): an exception of a load is answered with 500.
ApiCompletionStats ==
    /\ LET library_cache == load_library_cache(library_file)
           completed_log == load_completed_log(completed_file).doc
           games == library_cache.doc.games
       IN  out' = IF library_cache.raised
                  THEN Response("api_completion_stats", 500, <<>>, completed_file,
                                "none", NoBody)
                  ELSE Response("api_completion_stats", 200, <<>>, completed_file,
                                "none",
                                Body(Len(games),
                                     CompletedCount(games, CompletedAppids(completed_log)),
                                     <<>>))
    /\ UNCHANGED <<library_file, dlc_file, config_file, completed_file, store_mode, rf,
                   last_failed, last_run, uuids, last_saved>>

\* "Unknown Game"
UnknownGame == <<85, 110, 107, 110, 111, 119, 110, 32, 71, 97, 109, 101>>

\* game.get("name", "Unknown Game"): the default stands for a missing
\* member only; a null name is handed on as null (here: the empty name).
RowName(game) == IF game.name_state = "absent" THEN UnknownGame ELSE game.name

\* The row with the appid looked up as the library holds it, without str().
LibraryRowRaw(game, completed_appids) ==
    [appid |-> Str(game.appid), name |-> RowName(game),
     is_completed |-> game.appid \in completed_appids]

\* game_data (api.py:173-179); playtime_forever is carried along and is no
\* part of the games modelled here.
LibraryRow(game, completed_appids) ==
    [appid |-> Str(game.appid), name |-> RowName(game),
     is_completed |-> Str(game.appid) \in completed_appids]

LibraryRows(games, completed_appids) ==
    [i \in 1..Len(games) |-> LibraryRow(games[i], completed_appids)]

\* GET /library (api.py): an exception of a load is answered with 500.
ApiGetLibrary ==
    /\ LET library_cache == load_library_cache(library_file)
           completed_log == load_completed_log(completed_file).doc
           games == library_cache.doc.games
       IN  out' = IF library_cache.raised
                  THEN Response("api_get_library", 500, <<>>, completed_file, "none", NoBody)
                  ELSE Response("api_get_library", 200, <<>>, completed_file, "none",
                                Body(0, 0, LibraryRows(games, CompletedAppids(completed_log))))
    /\ UNCHANGED <<library_file, dlc_file, config_file, completed_file, store_mode, rf,
                   last_failed, last_run, uuids, last_saved>>

(* --------------------------- search routes ----------------------------- *)

\* api.py:306  len(query) < 2
MinQuery == 2

\* app.py:242  [:20]    app.py:245  [:10]
SearchLimit == 20
SampleLimit == 10

\* str.strip(): the blanks (code 32) at both ends removed
Strip(s) ==
    LET solid == {i \in 1..Len(s) : s[i] # 32}
    IN  IF solid = {} THEN <<>>
        ELSE SubSeq(s, CHOOSE i \in solid : \A j \in solid : i <= j,
                       CHOOSE i \in solid : \A j \in solid : j <= i)

\* sub in s
Contains(sub, s) ==
    \E i \in 0..(Len(s) - Len(sub)) : SubSeq(s, i + 1, i + Len(sub)) = sub

\* s[:n]
Prefix(s, n) == SubSeq(s, 1, IF Len(s) < n THEN Len(s) ELSE n)

\* game.get("name", "").lower() for an entry whose name is not null
SearchName(game) == IF game.name_state = "present" THEN Lower(game.name) ELSE <<>>

\* {"appid": game["appid"], "name": game["name"]}
GameResult(game) == [appid |-> game.appid, name |-> game.name]

GameResults(games) == [i \in 1..Len(games) |-> GameResult(games[i])]

\* The request of a search: the query, the "type" and the "parent_appid".
SearchReq(query, search_type, parent_appid) ==
    [query |-> query, search_type |-> search_type, parent_appid |-> parent_appid]

\* The matches cut to the first SearchLimit.
GameMatchesCut(games, query) ==
    Prefix(GameResults(SelectSeq(games, LAMBDA game : Contains(query, SearchName(game)))),
           SearchLimit)

\* api.py:313-318: the list comprehension over the games of the library
GameMatches(games, query) ==
    GameResults(SelectSeq(games, LAMBDA game : Contains(query, SearchName(game))))

\* None.lower() raises AttributeError
NameRaises(games) == \E i \in 1..Len(games) : games[i].name_state = "null"

\* api.py:321-331: the DLC lists hold the store's appids (numbers), and
\* `"appid" in item` raises TypeError for a number; an empty list gives no
\* result. The answer is [found, raised].
DlcMatches(dlc_map, parent_appid) ==
    IF parent_appid # NoAppid /\ parent_appid \in DOMAIN dlc_map
    THEN [found |-> TRUE, raised |-> dlc_map[parent_appid] # <<>>]
    ELSE [found |-> FALSE, raised |-> FALSE]

\* GET /search_games (api.py). Both documents are loaded before the query
\* is looked at; an exception is answered with 500.
ApiSearchGames(query, search_type, parent_appid) ==
    /\ LET library_cache == load_library_cache(library_file)
           dlc_cache == load_dlc_cache(dlc_file)
           q == Strip(Lower(query))
           games == library_cache.doc.games
           req == SearchReq(query, search_type, parent_appid)
           raises ==
                \/ library_cache.raised \/ dlc_cache.raised
                \/ /\ Len(q) >= MinQuery
                   /\ \/ search_type = "game" /\ NameRaises(games)
                      \/ search_type = "dlc" /\ DlcMatches(dlc_cache.doc.dlc, parent_appid).raised
           results ==
                IF Len(q) < MinQuery THEN <<>>
                ELSE IF search_type = "game" THEN GameMatches(games, q)
                ELSE <<>>
       IN  out' = IF raises
                  THEN Response("api_search_games", 500, req, completed_file, "none", NoBody)
                  ELSE Response("api_search_games", 200, req, completed_file, "none",
                                Body(0, 0, results))
    /\ UNCHANGED <<library_file, dlc_file, config_file, completed_file, store_mode, rf,
                   last_failed, last_run, uuids, last_saved>>

\* [game["name"] for game in games]
NameResults(games) == [i \in 1..Len(games) |-> games[i].name]

\* app.py's load_library_cache: the default for a file that is missing or
\* does not parse
app_load_library_cache(file) == IF file.st = "ok" THEN file.doc ELSE DefaultLibrary

\* GET /api/library_search (app.py): the names of the matches cut to
\* SearchLimit; with no query the first SampleLimit names, where
\* game["name"] raises KeyError for an entry without a name.
LibrarySearch(q) ==
    /\ LET query == Lower(q)
           library == app_load_library_cache(library_file).games
           req == SearchReq(q, "game", NoAppid)
           raises ==
                IF query # <<>> THEN NameRaises(library)
                ELSE \E i \in 1..Len(library) : library[i].name_state = "absent"
           results ==
                IF query # <<>>
                THEN Prefix(NameResults(SelectSeq(library,
                                LAMBDA game : Contains(query, SearchName(game)))),
                            SearchLimit)
                ELSE Prefix(NameResults(library), SampleLimit)
       IN  out' = IF raises
                  THEN Response("library_search", 500, req, completed_file, "none", NoBody)
                  ELSE Response("library_search", 200, req, completed_file, "none",
                                Body(0, 0, results))
    /\ UNCHANGED <<library_file, dlc_file, config_file, completed_file, store_mode, rf,
                   last_failed, last_run, uuids, last_saved>>

(* ----------------------- setup and refresh routes ---------------------- *)

\* The values of a credential member of a request: "", blanks, a value,
\* a value between blanks.
SetupValues == {"", " ", "x", " x "}

\* str.strip() on those values
StripValue(v) == IF v = " " THEN "" ELSE IF v = " x " THEN "x" ELSE v

\* data.get(k, ""): the member, "" when it is not there
GetOrEmpty(cred) == IF cred.present THEN cred.value ELSE ""

\* The JSON of a POST on /setup: has_json (request.get_json() gives a dict)
\* and the two members.
SetupData(has_json, api_key, steam_id) ==
    [has_json |-> has_json, steam_api_key |-> api_key, steam_id |-> steam_id]

\* The test with `and` for `or`.
SetupRejectsBoth(api_key, steam_id) == api_key = "" /\ steam_id = ""

\* api.py:30  if not api_key or not steam_id
SetupRejects(api_key, steam_id) == api_key = "" \/ steam_id = ""

\* The locals of refresh_library_cache(config) as it is entered (lines
\* 98-102) from a route handler, the documents being as in files.
EnterRefresh(config, caller, files) ==
    [IdleRf EXCEPT
        !.pc = PcAfter(RetAfterCheck(config), "get_owned_games"),
        !.config = config,
        !.ret = RetAfterCheck(config),
        !.caller = caller,
        !.pre = files]

\* POST /setup (api.py) up to the call of refresh_library_cache. The
\* result of save_config is not looked at. None.get raises for a body that
\* is no object: 500.
ApiSetupPost(p, data, outcome) ==
    /\ rf[p].pc = "idle"
    /\ LET api_key == StripValue(GetOrEmpty(data.steam_api_key))
           steam_id == StripValue(GetOrEmpty(data.steam_id))
           config_data == Config(Cred(TRUE, api_key), Cred(TRUE, steam_id))
           saves == data.has_json /\ ~SetupRejects(api_key, steam_id)
       IN  /\ ~saves => outcome = "written"
           /\ config_file' = IF saves THEN save_config(config_file, config_data, outcome)
                              ELSE config_file
           /\ rf' = IF saves
                    THEN [rf EXCEPT ![p] =
                            EnterRefresh(config_data, "api_setup_post",
                                Snapshot(library_file, dlc_file,
                                         save_config(config_file, config_data, outcome),
                                         completed_file))]
                    ELSE rf
           /\ out' = IF saves THEN out
                     ELSE Response("api_setup_post", IF data.has_json THEN 400 ELSE 500,
                                   data, completed_file, "none", NoBody)
    /\ UNCHANGED <<library_file, dlc_file, completed_file, store_mode, last_failed,
                   last_run, uuids, last_saved>>

\* POST /refresh (api.py) up to the call of refresh_library_cache: an
\* exception of load_config is answered with 500, blank credentials with 400.
ApiRefreshLibrary(p) ==
    /\ rf[p].pc = "idle"
    /\ LET config == load_config(config_file)
           runs == ~config.raised
                    /\ ~(Blank(config.doc.steam_api_key) \/ Blank(config.doc.steam_id))
       IN  /\ rf' = IF runs
                    THEN [rf EXCEPT ![p] =
                            EnterRefresh(config.doc, "api_refresh_library",
                                Snapshot(library_file, dlc_file, config_file,
                                         completed_file))]
                    ELSE rf
           /\ out' = IF runs THEN out
                     ELSE Response("api_refresh_library", IF config.raised THEN 500 ELSE 400,
                                   <<>>, completed_file, "none", NoBody)
    /\ UNCHANGED <<library_file, dlc_file, config_file, completed_file, store_mode,
                   last_failed, last_run, uuids, last_saved>>

\* The status the handler answers with once refresh_library_cache is over:
\* /setup answers 200 for success and for failure, /refresh 200 for success
\* and 500 for failure; an exception is answered with 500.
StatusAfterRefresh(caller, ret) ==
    IF ret.kind = "raise" THEN 500
    ELSE IF caller = "api_setup_post" \/ ret.success THEN 200
    ELSE 500

\* The handler that called refresh_library_cache answers.
Answer(p) ==
    /\ rf[p].pc = "done"
    /\ rf[p].caller # "none"
    /\ rf' = [rf EXCEPT ![p] = IdleRf]
    /\ last_failed' = FailedLookups(rf[p].events)
    /\ last_run' = LastRun(rf[p].ret.kind = "return" /\ rf[p].ret.success, rf[p].upstream)
    /\ last_saved' = IF \A q \in Procs \ {p} : rf[q].pc = "idle" THEN NoSaves ELSE last_saved
    /\ out' = Response(rf[p].caller, StatusAfterRefresh(rf[p].caller, rf[p].ret),
                       rf[p].config, rf[p].pre.completed_file, "none", NoBody)
    /\ UNCHANGED <<library_file, dlc_file, config_file, completed_file, store_mode, uuids>>

(* ------------------- the standalone application (app.py) -------------- *)

\* app.py:182  time.time() - library_cache.get("last_updated", 0) > 3600
StaleAfter == 3600

\* app.py's load_config: blank credentials for a file that is missing or
\* does not parse
app_load_config(file) == IF file.st = "ok" THEN file.doc ELSE DefaultConfig

\* The dict {"last_updated": 0, "games": []} as len(), truth and iteration
\* see it: its two keys.
ClearedCacheDict == <<"last_updated", "games">>

\* app.py's save_library_cache(games): cache_data = {"last_updated":
\* int(time.time()), "games": games} is written, whatever games is
app_save_library_cache(file, games, now, outcome) ==
    FileAfterSave(file,
                  [last_updated |-> now, has_game_count |-> FALSE, game_count |-> 0,
                   games |-> games],
                  outcome, DefaultLibrary)

\* app.py:217  save_library_cache({"last_updated": 0, "games": []})
SetupCache(file, now, outcome) ==
    app_save_library_cache(file, ClearedCacheDict, now, outcome)

\* What a request on / or /setup of app.py was and did: the credentials it
\* worked with, the clock, whether it followed a /setup that saved the
\* credentials, and whether it called the owned-games endpoint.
AppReq(config, now, after_setup, fetched) ==
    [config |-> config, now |-> now, after_setup |-> after_setup, fetched |-> fetched]

\* The clock does not run backwards: a request is not earlier than the
\* last write of library.json.
NotBefore(now, file) == file.st = "ok" => now >= file.doc.last_updated

\* POST /setup (app.py): both credentials are required; the cache is
\* written only when the credentials were saved, and the result of that
\* write is not looked at.
AppSetup(form, now, outcome, cache_outcome) ==
    /\ NotBefore(now, library_file)
    /\ LET api_key == StripValue(GetOrEmpty(form.steam_api_key))
           steam_id == StripValue(GetOrEmpty(form.steam_id))
           config_data == Config(Cred(TRUE, api_key), Cred(TRUE, steam_id))
           rejected == SetupRejects(api_key, steam_id)
       IN  /\ rejected => outcome = "written"
           /\ (rejected \/ ~Saved(outcome)) => cache_outcome = "written"
           /\ config_file' = IF rejected THEN config_file
                              ELSE save_config(config_file, config_data, outcome)
           /\ library_file' = IF ~rejected /\ Saved(outcome)
                               THEN SetupCache(library_file, now, cache_outcome)
                               ELSE library_file
           /\ out' = Response("setup", IF ~rejected /\ Saved(outcome) THEN 302 ELSE 200,
                              AppReq(config_data, now, FALSE, FALSE), completed_file,
                              IF rejected THEN "none" ELSE outcome, NoBody)
    /\ UNCHANGED <<dlc_file, completed_file, store_mode, rf, last_failed, last_run, uuids,
                   last_saved>>

\* What fetch_steam_library gets from the owned-games endpoint: an error
\* (it returns None) or a body whose games list, [] when there is none, is
\* cached.
AppFetched(resp) ==
    IF resp.kind # "ok" THEN [ok |-> FALSE, games |-> <<>>]
    ELSE [ok |-> TRUE, games |-> IF resp.has_response /\ resp.has_games THEN resp.games ELSE <<>>]

\* GET / (app.py): redirect to /setup without credentials; a fetch when
\* the cache has no games or is older than StaleAfter seconds.
AppIndex(now, resp, outcome) ==
    /\ NotBefore(now, library_file)
    /\ LET config == app_load_config(config_file)
           library_cache == app_load_library_cache(library_file)
           configured == ~(Blank(config.steam_api_key) \/ Blank(config.steam_id))
           stale == Len(library_cache.games) = 0
                        \/ now - library_cache.last_updated > StaleAfter
           fetches == configured /\ stale
           got == AppFetched(resp)
           after_setup == out.op = "setup" /\ out.status = 302
       IN  /\ (~fetches \/ ~got.ok) => outcome = "written"
           /\ ~fetches => resp = OwnedFailure("network_error", 0)
           /\ library_file' = IF fetches /\ got.ok
                               THEN app_save_library_cache(library_file, got.games, now, outcome)
                               ELSE library_file
           /\ out' = Response("index_or_setup", IF configured THEN 200 ELSE 302,
                              AppReq(config, now, after_setup, fetches), completed_file,
                              IF fetches /\ got.ok THEN outcome ELSE "none",
                              Body(Len(library_cache.games), 0, <<>>))
    /\ UNCHANGED <<dlc_file, config_file, completed_file, store_mode, rf, last_failed,
                   last_run, uuids, last_saved>>

(* --------------------------- specification ----------------------------- *)

\* After setup_files(): every document exists with its default content.
Init ==
    /\ library_file = File("ok", DefaultLibrary)
    /\ dlc_file = File("ok", DefaultDlc)
    /\ config_file = File("ok", DefaultConfig)
    /\ completed_file = File("ok", DefaultCompleted)
    /\ store_mode \in StoreModes
    /\ rf = [p \in Procs |-> IdleRf]
    /\ last_failed = {}
    /\ last_run = LastRun(FALSE, <<>>)
    /\ out = NoResponse
    /\ uuids = 0
    /\ last_saved = NoSaves

\* Requests are served one at a time by the handler "r1".
Sequential == {"r1"}

Next ==
    \E p \in Sequential :
        \/ \E config \in Configs : Call(p, config)
        \/ \E resp \in OwnedResponses : FetchOwnedGames(p, resp)
        \/ \E now \in Times, outcome \in SaveOutcomes : SaveLibrary(p, now, outcome)
        \/ LoadDlc(p)
        \/ \E resp \in DetailsResponses : CheckGame(p, resp)
        \/ \E outcome \in SaveOutcomes : SaveDlc(p, outcome)
        \/ Finish(p)

Spec == Init /\ [][Next]_vars

(* ------------------ the routes on the completed log -------------------- *)

\* The spec's two-game library: Half-Life 2 (appid 220), Portal 2 (620).
NamedGame(n, name) == [appid |-> IntId(n), name_state |-> "present", name |-> name]
HalfLife2 == NamedGame(220, <<72, 97, 108, 102, 45, 76, 105, 102, 101, 32, 50>>)
Portal2 == NamedGame(620, <<80, 111, 114, 116, 97, 108, 32, 50>>)

\* library.json as a refresh leaves it when upstream delivers games.
LibraryFileOf(games) ==
    File("ok", LibraryData(1, Len(games), get_owned_games(OwnedOk(games)).result))

\* The appids completions are logged for: an owned game and a DLC.
LogNums == {220, 901}

\* The bodies POSTed on /log.
LogRequests ==
    {LogData(FALSE, FALSE, NoAppid, FALSE, FALSE),
     LogData(TRUE, FALSE, StrId(220), FALSE, FALSE),
     LogData(TRUE, TRUE, NoAppid, FALSE, FALSE)}
    \cup {LogData(TRUE, TRUE, a, f, f) :
            a \in {IntId(n) : n \in LogNums} \cup {StrId(n) : n \in LogNums},
            f \in BOOLEAN}

\* The objects POSTed on /api/completed_log.
RawEntries ==
    {Entry(id, IntId(220), f) : id \in {NoLogId, 1}, f \in BOOLEAN}

\* The ids DELETE /log/<log_id> is called with.
LogIds == 1..(MaxUuids + 1)

InitLog ==
    /\ library_file \in {File("ok", DefaultLibrary), File("corrupt", DefaultLibrary),
                         LibraryFileOf(<<Portal2, HalfLife2>>)}
    /\ dlc_file = File("ok", DefaultDlc)
    /\ config_file = File("ok", DefaultConfig)
    /\ completed_file \in {File("ok", DefaultCompleted), File("missing", DefaultCompleted)}
    /\ store_mode = "dlc"
    /\ rf = [p \in Procs |-> IdleRf]
    /\ last_failed = {}
    /\ last_run = LastRun(FALSE, <<>>)
    /\ out = NoResponse
    /\ uuids = 0
    /\ last_saved = NoSaves

NextLog ==
    \/ \E data \in LogRequests, outcome \in SaveOutcomes : ApiLogCompletion(data, outcome)
    \/ \E log_id \in LogIds, outcome \in SaveOutcomes : ApiDeleteLogEntry(log_id, outcome)
    \/ \E is_dict \in BOOLEAN, new_entry \in RawEntries, outcome \in SaveOutcomes :
            HandleCompletedLog(is_dict, new_entry, outcome)
    \/ ApiCompletionStats
    \/ ApiGetLibrary

SpecLog == InitLog /\ [][NextLog]_vars

(* ------------------- get_owned_games on small lists -------------------- *)

\* The owned-games lists of at most MaxSort entries.
MaxSort == 3

\* "Zelda", "alpha", "Alpha"
SortNames == {<<90, 101, 108, 100, 97>>, <<97, 108, 112, 104, 97>>, <<65, 108, 112, 104, 97>>}

\* An entry with one of the names, with no "name" member, or with "name": null.
SortGames(n) ==
    {NamedGame(n, name) : name \in SortNames} \cup {NamelessGame(n), NullNameGame(n)}

\* The lists whose i-th entry has appid i.
SortLists ==
    UNION {{l \in [1..n -> UNION {SortGames(i) : i \in 1..n}] :
                \A i \in 1..n : l[i] \in SortGames(i)} : n \in 0..MaxSort}

ValidConfig == Config(Cred(TRUE, "x"), Cred(TRUE, "x"))

\* refresh_library_cache up to the save of the library, which the disk
\* refuses, so that every invocation starts from the same documents.
NextSort ==
    \E p \in Sequential :
        \/ Call(p, ValidConfig)
        \/ \E games \in SortLists : FetchOwnedGames(p, OwnedOk(games))
        \/ \E now \in Times : SaveLibrary(p, now, "refused")
        \/ Finish(p)

\* The documents as setup_files() leaves them, the store answering with DLC lists.
InitDlc == Init /\ store_mode = "dlc"

SpecSort == InitDlc /\ [][NextSort]_vars

(* ----------------------- two refreshes at once ------------------------- *)

\* What the two invocations meet: upstream delivers one of two libraries,
\* the store answers every lookup with a DLC list.
ConcLibraries == {<<Game(MaxGames)>>, <<Game(MaxGames), Game(MaxGames - 1)>>}

ConcDetails ==
    {DetailsResponse("ok", TRUE, TRUE, Details(TRUE, FALSE, TRUE, <<901>>))}

\* Two requests on /library/refresh served by two threads: the steps of
\* their refresh_library_cache invocations interleave.
NextConc ==
    \E p \in Procs :
        \/ Call(p, ValidConfig)
        \/ \E games \in ConcLibraries : FetchOwnedGames(p, OwnedOk(games))
        \/ \E now \in Times, outcome \in SaveOutcomes : SaveLibrary(p, now, outcome)
        \/ LoadDlc(p)
        \/ \E resp \in ConcDetails : CheckGame(p, resp)
        \/ \E outcome \in SaveOutcomes : SaveDlc(p, outcome)
        \/ Finish(p)

SpecConc == InitDlc /\ [][NextConc]_vars

(* ------------------------- the search routes --------------------------- *)

\* SearchLimit + 1 games of one name.
Sequels == [i \in 1..(SearchLimit + 1) |-> NamedGame(i, Portal2.name)]

\* "", "h", "a", "half", "HALF", " half ", "zz", "al", "portal"
Queries ==
    {<<>>, <<104>>, <<97>>, <<104, 97, 108, 102>>, <<72, 65, 76, 70>>,
     <<32, 104, 97, 108, 102, 32>>, <<122, 122>>, <<97, 108>>,
     <<112, 111, 114, 116, 97, 108>>}

\* dlc.json after Half-Life 2 was found to have a DLC and Portal 2 none.
SearchDlc ==
    [dlc |-> MapSet(MapSet(EmptyMap, StrId(220), <<901>>), StrId(620), <<>>)]

InitSearch ==
    /\ library_file \in
        {File("ok", DefaultLibrary), File("corrupt", DefaultLibrary),
         LibraryFileOf(<<Portal2, HalfLife2>>), LibraryFileOf(Sequels),
         LibraryFileOf(Descending(MaxGames, 1)),
         LibraryFileOf(<<Game(MaxGames), NamelessGame(MaxGames - 1)>>)}
    /\ dlc_file \in {File("ok", DefaultDlc), File("ok", SearchDlc)}
    /\ config_file = File("ok", DefaultConfig)
    /\ completed_file = File("ok", DefaultCompleted)
    /\ store_mode = "dlc"
    /\ rf = [p \in Procs |-> IdleRf]
    /\ last_failed = {}
    /\ last_run = LastRun(FALSE, <<>>)
    /\ out = NoResponse
    /\ uuids = 0
    /\ last_saved = NoSaves

NextSearch ==
    \/ \E query \in Queries, search_type \in {"game", "dlc", "other"},
          parent_appid \in {NoAppid, StrId(220), StrId(620)} :
            ApiSearchGames(query, search_type, parent_appid)
    \/ \E q \in Queries : LibrarySearch(q)

SpecSearch == InitSearch /\ [][NextSearch]_vars

(* -------------------- setup, refresh and the log ----------------------- *)

\* The bodies POSTed on /setup.
SetupRequests ==
    {SetupData(FALSE, Cred(FALSE, ""), Cred(FALSE, "")),
     SetupData(TRUE, Cred(FALSE, ""), Cred(TRUE, "x"))}
    \cup {SetupData(TRUE, Cred(TRUE, k), Cred(TRUE, i)) : k, i \in SetupValues}

\* What upstream answers during these requests.
SetupOwned == {OwnedFailure("http_error", 403), OwnedOk(<<Game(MaxGames)>>)}

\* A completion POSTed on /log.
SetupLogRequests == {LogData(TRUE, TRUE, StrId(MaxGames), FALSE, FALSE)}

NoRefreshRuns == \A p \in Procs : rf[p].pc = "idle"

\* POST /log, served when no other request is.
LogCompletionAlone(data, outcome) == NoRefreshRuns /\ ApiLogCompletion(data, outcome)

\* Requests served one at a time: /setup, /refresh and /log.
NextSetup ==
    \/ \E p \in Sequential :
        \/ \E data \in SetupRequests, outcome \in SaveOutcomes : ApiSetupPost(p, data, outcome)
        \/ ApiRefreshLibrary(p)
        \/ \E resp \in SetupOwned : FetchOwnedGames(p, resp)
        \/ \E now \in Times, outcome \in SaveOutcomes : SaveLibrary(p, now, outcome)
        \/ LoadDlc(p)
        \/ \E resp \in ConcDetails : CheckGame(p, resp)
        \/ \E outcome \in SaveOutcomes : SaveDlc(p, outcome)
        \/ Answer(p)
    \/ \E data \in SetupLogRequests, outcome \in SaveOutcomes :
            LogCompletionAlone(data, outcome)

SpecSetup == InitDlc /\ [][NextSetup]_vars

(* ------------------------ refresh after refresh ------------------------ *)

\* The game the loop of the invocation looks up next.
NextGame(p) == QuotaSlice(rf[p].games_to_check)[rf[p].next]

\* The store's answer when the lookup of a game always succeeds with a
\* DLC list.
SuccessAnswer == DetailsResponse("ok", TRUE, TRUE, Details(TRUE, FALSE, TRUE, <<901>>))

\* An unchanging store: the free games always answer with a DLC list, the
\* bulk games as store_mode says.
SteadyAnswer(appid, mode) ==
    IF appid[2] \in FreeNums THEN SuccessAnswer ELSE BulkResponse(mode)

\* One turn of the loop against the unchanging store.
CheckGameSteady(p) ==
    /\ rf[p].pc = "dlc_loop"
    /\ rf[p].next <= Len(QuotaSlice(rf[p].games_to_check))
    /\ CheckGame(p, SteadyAnswer(NextGame(p).appid, store_mode))

\* Refresh after refresh with valid credentials: upstream delivers the
\* same Quota + Over games every time and every save is written.
NextSteady ==
    \E p \in Sequential :
        \/ Call(p, ValidConfig)
        \/ FetchOwnedGames(p, OwnedOk(Descending(MaxGames, 1)))
        \/ \E now \in Times : SaveLibrary(p, now, "written")
        \/ LoadDlc(p)
        \/ CheckGameSteady(p)
        \/ SaveDlc(p, "written")
        \/ Finish(p)

\* Every refresh runs to its end and another one follows.
SpecSteady == Init /\ [][NextSteady]_vars /\ WF_vars(NextSteady)

(* --------------------------- app.py's routes --------------------------- *)

\* The forms POSTed on /setup.
AppForms ==
    {SetupData(TRUE, Cred(FALSE, ""), Cred(TRUE, "x"))}
    \cup {SetupData(TRUE, Cred(TRUE, k), Cred(TRUE, i)) : k, i \in SetupValues}

\* Clock readings: two within the hour, two more than an hour later.
AppTimes == {1, 2, StaleAfter + 2, StaleAfter + 3}

\* What the owned-games endpoint answers.
AppOwned ==
    {OwnedFailure("network_error", 0), OwnedFailure("http_error", 403),
     OwnedResponse("ok", 200, TRUE, TRUE, FALSE, <<>>, FALSE, 0),
     OwnedOk(<<Portal2, HalfLife2>>)}

NextApp ==
    \/ \E form \in AppForms, now \in AppTimes, outcome, cache_outcome \in SaveOutcomes :
            AppSetup(form, now, outcome, cache_outcome)
    \/ \E now \in AppTimes, resp \in AppOwned, outcome \in SaveOutcomes :
            AppIndex(now, resp, outcome)

SpecApp == InitDlc /\ [][NextApp]_vars

(* ------------------------------ claims --------------------------------- *)

\* The invocations that have been entered and not yet handed back.
Entered(p) == rf[p].pc # "idle"

HasEvent(p, op, ok) ==
    \E i \in 1..Len(rf[p].events) : rf[p].events[i].op = op /\ rf[p].events[i].ok = ok

CountEvents(p, op) ==
    Cardinality({i \in 1..Len(rf[p].events) : rf[p].events[i].op = op})

\* The owned games of the pass that were unchecked when the DLC document
\* was loaded, in the order of the sorted library.
Unchecked(p) ==
    SelectSeq(rf[p].result, LAMBDA game : <<"str", game.appid[2]>> \notin DOMAIN rf[p].loaded)

QuotaOf(n) == IF n < Quota THEN n ELSE Quota

\* The loop of the pass has run to its end.
PassOver(p) == rf[p].pc = "done" /\ (HasEvent(p, "save_dlc_cache", TRUE) \/ HasEvent(p, "save_dlc_cache", FALSE))

FilesAsBefore(p) ==
    /\ library_file = rf[p].pre.library_file
    /\ dlc_file = rf[p].pre.dlc_file
    /\ config_file = rf[p].pre.config_file
    /\ completed_file = rf[p].pre.completed_file

\* C1: whenever a lookup of the pass reported success, the game's appid is a
\* key of the DLC map: mapped to the returned DLC list when that is
\* non-empty, to the empty list otherwise (also when the data member is
\* absent or empty).
C1_SuccessIsRecorded ==
    \A p \in Procs : \A i \in 1..Len(rf[p].events) :
        LET e == rf[p].events[i]
        IN  (e.op = "get_app_details" /\ e.ok) =>
                /\ e.appid \in DOMAIN rf[p].current_dlc_map
                /\ rf[p].current_dlc_map[e.appid] =
                       (IF e.details.present /\ e.details.has_dlc /\ e.details.dlc # <<>>
                        THEN e.details.dlc ELSE <<>>)

\* C2: a refresh issues no app-details call for an appid that was a key of
\* the DLC document when it loaded it (whatever the value), and calls only
\* for owned games.
C2_NoCallForCheckedKeys ==
    \A p \in Procs : \A i \in 1..Len(rf[p].events) :
        LET e == rf[p].events[i]
        IN  e.op = "get_app_details" =>
                /\ e.appid \notin DOMAIN rf[p].loaded
                /\ rf[p].pre.dlc_file.st = "ok" => e.appid \notin DOMAIN rf[p].pre.dlc_file.doc.dlc
                /\ \E k \in 1..Len(rf[p].result) : <<"str", rf[p].result[k].appid[2]>> = e.appid

\* A pass is over that made calls although the loaded document already held
\* an owned game with the empty list.
C2_Witness ==
    \E p \in Procs :
        /\ PassOver(p)
        /\ Len(Lookups(rf[p].events)) > 0
        /\ \E k \in 1..Len(rf[p].result) :
              /\ Str(rf[p].result[k].appid) \in DOMAIN rf[p].loaded
              /\ rf[p].loaded[Str(rf[p].result[k].appid)] = <<>>

\* C3: a pass with U unchecked owned games calls app-details exactly for the
\* first min(50, U) of them, in sorted library order, and every unchecked
\* game beyond the quota is absent from the DLC map and document afterwards.
C3_QuotaPerPass ==
    \A p \in Procs : PassOver(p) =>
        LET unchecked == Unchecked(p)
            lookups == Lookups(rf[p].events)
            n == QuotaOf(Len(unchecked))
        IN  /\ Len(lookups) = n
            /\ \A i \in 1..n : lookups[i].appid = <<"str", unchecked[i].appid[2]>>
            /\ \A i \in (n + 1)..Len(unchecked) :
                  /\ <<"str", unchecked[i].appid[2]>> \notin DOMAIN rf[p].current_dlc_map
                  /\ dlc_file.st = "ok" =>
                        <<"str", unchecked[i].appid[2]>> \notin DOMAIN dlc_file.doc.dlc

\* A pass is over that had more unchecked games than the quota and wrote
\* the DLC document.
C3_Witness ==
    \E p \in Procs :
        /\ PassOver(p)
        /\ Len(Unchecked(p)) > Quota
        /\ HasEvent(p, "save_dlc_cache", TRUE)
        /\ DOMAIN rf[p].loaded # {}

\* The appids of the games to check of the running pass.
ToCheckIds(p) ==
    {<<"str", rf[p].games_to_check[i].appid[2]>> : i \in 1..Len(rf[p].games_to_check)}

OwnedIds(p) ==
    {<<"str", rf[p].result[i].appid[2]>> : i \in 1..Len(rf[p].result)}

\* C4: a failed lookup leaves the game's appid out of the DLC map and
\* document, does not stop the pass (every game of the quota slice is still
\* looked up) and the refresh returns success; in the next refresh that
\* selects its games, a game whose lookup failed last time and that is still
\* owned is among the games to check, and is looked up when it lies within
\* the quota.
C4_FailedLookupIsRetried ==
    \A p \in Procs :
        /\ \A a \in FailedLookups(rf[p].events) :
              /\ a \notin DOMAIN rf[p].current_dlc_map
              /\ PassOver(p) =>
                    /\ rf[p].ret.kind = "return" /\ rf[p].ret.success
                    /\ Len(Lookups(rf[p].events)) = QuotaOf(Len(rf[p].games_to_check))
                    /\ dlc_file.st = "ok" => a \notin DOMAIN dlc_file.doc.dlc
        /\ (rf[p].pc = "dlc_loop" \/ PassOver(p)) =>
              \A a \in last_failed \cap OwnedIds(p) :
                  /\ a \in ToCheckIds(p)
                  /\ PassOver(p) =>
                        \A i \in 1..QuotaOf(Len(rf[p].games_to_check)) :
                            <<"str", rf[p].games_to_check[i].appid[2]>> = a =>
                                \E j \in 1..Len(rf[p].events) :
                                    /\ rf[p].events[j].op = "get_app_details"
                                    /\ rf[p].events[j].appid = a

\* A pass is over in which a lookup failed, a later one succeeded, and a
\* game that failed in the pass before was looked up again.
C4_Witness ==
    \E p \in Procs :
        /\ PassOver(p)
        /\ \E i, j \in 1..Len(rf[p].events) :
              /\ i < j
              /\ rf[p].events[i].op = "get_app_details" /\ ~rf[p].events[i].ok
              /\ rf[p].events[j].op = "get_app_details" /\ rf[p].events[j].ok
              /\ rf[p].events[j].appid \in DOMAIN rf[p].current_dlc_map
        /\ \E a \in last_failed :
              \E j \in 1..Len(rf[p].events) :
                  rf[p].events[j].op = "get_app_details" /\ rf[p].events[j].appid = a

\* C5: between every two consecutive app-details calls of an invocation
\* there is a pacing delay, whatever the earlier call returned.
C5_DelayBetweenCalls ==
    \A p \in Procs : \A i \in 1..(Len(rf[p].events) - 1) :
        rf[p].events[i].op = "get_app_details" =>
            rf[p].events[i + 1].op # "get_app_details"

\* C6: every app-details call and every write of the DLC document come
\* after a successful save of the library by the same invocation, and from
\* that save on, whatever the lookups and the DLC save do, the library
\* document is the one this invocation wrote.
C6_LibrarySavedFirst ==
    \A p \in Procs :
        /\ \A i \in 1..Len(rf[p].events) :
              rf[p].events[i].op \in {"get_app_details", "save_dlc_cache", "sleep"} =>
                  \E j \in 1..(i - 1) :
                      rf[p].events[j].op = "save_library_cache" /\ rf[p].events[j].ok
        /\ dlc_file # rf[p].pre.dlc_file /\ Entered(p) =>
              HasEvent(p, "save_library_cache", TRUE)
        /\ HasEvent(p, "save_library_cache", TRUE) =>
              /\ library_file = File("ok", rf[p].written)
              /\ rf[p].written.games = rf[p].result
              /\ rf[p].written.game_count = rf[p].total_count

\* A pass is over in which a lookup failed and the DLC save failed, after a
\* library save that replaced a library of other games.
C6_Witness ==
    \E p \in Procs :
        /\ PassOver(p)
        /\ FailedLookups(rf[p].events) # {}
        /\ HasEvent(p, "save_dlc_cache", FALSE)
        /\ dlc_file # rf[p].pre.dlc_file
        /\ rf[p].pre.library_file.doc.games # rf[p].result
        /\ rf[p].result # <<>>

\* The messages get_owned_games returns with a failure.
OwnedErrorMessages ==
    {MsgInvalid, MsgAccessDenied, MsgBadRequest, MsgHttp, MsgNetwork, MsgUnexpected}

\* C7: when the owned-games fetch fails, the refresh returns failure with
\* the fetch's message, no document is written and no app-details call is
\* made.
C7_FetchFailureShortCircuits ==
    \A p \in Procs : HasEvent(p, "get_owned_games", FALSE) =>
        /\ rf[p].pc = "done"
        /\ rf[p].message \in OwnedErrorMessages
        /\ rf[p].ret = [kind |-> "return", success |-> FALSE, message |-> rf[p].message,
                        total_count |-> 0, dlc_fetch_count |-> 0]
        /\ Len(rf[p].events) = 1
        /\ FilesAsBefore(p)

\* A fetch has failed on a refresh that started from documents holding a
\* library and a DLC map.
C7_Witness ==
    \E p \in Procs :
        /\ HasEvent(p, "get_owned_games", FALSE)
        /\ rf[p].message = MsgAccessDenied
        /\ library_file.st = "ok" /\ library_file.doc.games # <<>>
        /\ dlc_file.st = "ok" /\ DOMAIN dlc_file.doc.dlc # {}

\* C8: when the DLC save fails after everything before it succeeded, the
\* refresh returns success and the library document holds the fetched games.
C8_DlcSaveFailureIsNotFatal ==
    \A p \in Procs : HasEvent(p, "save_dlc_cache", FALSE) =>
        /\ rf[p].pc = "done"
        /\ rf[p].ret.kind = "return" /\ rf[p].ret.success
        /\ rf[p].ret.message = MsgRefreshed
        /\ library_file.st = "ok"
        /\ library_file.doc.games = rf[p].result
        /\ library_file.doc.game_count = rf[p].total_count

\* The DLC save has failed in a refresh that fetched games other than the
\* ones the library held, and recorded a lookup.
C8_Witness ==
    \E p \in Procs :
        /\ HasEvent(p, "save_dlc_cache", FALSE)
        /\ rf[p].result # <<>>
        /\ rf[p].pre.library_file.doc.games # rf[p].result
        /\ rf[p].dlc_fetch_count > 0

\* C9: when the library save fails, the refresh returns failure, saves no
\* second time, makes no app-details call and leaves the DLC document as it
\* was.
C9_LibrarySaveFailureIsFatal ==
    \A p \in Procs : HasEvent(p, "save_library_cache", FALSE) =>
        /\ rf[p].pc = "done"
        /\ rf[p].ret = [kind |-> "return", success |-> FALSE, message |-> MsgSaveFailed,
                        total_count |-> 0, dlc_fetch_count |-> 0]
        /\ CountEvents(p, "get_owned_games") = 1
        /\ CountEvents(p, "save_library_cache") = 1
        /\ CountEvents(p, "get_app_details") = 0
        /\ CountEvents(p, "save_dlc_cache") = 0
        /\ dlc_file = rf[p].pre.dlc_file

\* The library save has failed in a refresh that fetched games not yet
\* checked for DLC.
C9_Witness ==
    \E p \in Procs :
        /\ HasEvent(p, "save_library_cache", FALSE)
        /\ \E i \in 1..Len(rf[p].result) :
              dlc_file.st = "ok" /\ <<"str", rf[p].result[i].appid[2]>> \notin DOMAIN dlc_file.doc.dlc

\* C10: a refresh entered with an empty or missing API key, or an empty or
\* missing Steam id, returns the missing-credentials failure, makes no
\* network call and writes no document.
C10_MissingCredentials ==
    \A p \in Procs :
        LET key == rf[p].config.steam_api_key
            id == rf[p].config.steam_id
        IN  (Entered(p) /\ (~key.present \/ key.value = "" \/ ~id.present \/ id.value = "")) =>
                /\ rf[p].pc = "done"
                /\ rf[p].ret = [kind |-> "return", success |-> FALSE, message |-> MsgMissing,
                                total_count |-> 0, dlc_fetch_count |-> 0]
                /\ rf[p].events = <<>>
                /\ FilesAsBefore(p)

\* A refresh was entered with an API key and no Steam id.
C10_Witness ==
    \E p \in Procs :
        /\ Entered(p)
        /\ rf[p].config.steam_api_key = Cred(TRUE, "x")
        /\ ~rf[p].config.steam_id.present
        /\ rf[p].ret.message = MsgMissing

\* The completed log as the handlers read it.
Log == load_completed_log(completed_file).doc
LogBefore == load_completed_log(out.before).doc

\* The entries of a log that are not DLC expansions and are for appid,
\* appids compared in their string form.
MainEntries(log, appid) ==
    {i \in 1..Len(log) : ~log[i].is_dlc_expansion /\ Str(log[i].appid) = Str(appid)}

\* C11: the completed log holds at most one entry that is not a DLC
\* expansion per appid ("220" and 220 being the same appid), and a POST on
\* /log of a completion that is not an expansion, for an appid that has
\* such an entry, is answered 409 and leaves the log as it was.
C11_OneMainEntryPerApp ==
    /\ \A i, j \in 1..Len(Log) :
        (i # j /\ ~Log[i].is_dlc_expansion /\ ~Log[j].is_dlc_expansion)
            => Str(Log[i].appid) # Str(Log[j].appid)
    /\ (/\ out.op = "api_log_completion"
        /\ out.req.has_json /\ out.req.game_name /\ out.req.appid # NoAppid
        /\ ~(out.req.has_flag /\ out.req.flag)
        /\ MainEntries(LogBefore, out.req.appid) # {})
        => (out.status = 409 /\ completed_file = out.before)

\* The owned-games call of the invocation has been answered.
Fetched(p) == HasEvent(p, "get_owned_games", TRUE) \/ HasEvent(p, "get_owned_games", FALSE)

HasName(game) == game.name_state = "present"

\* a may stand before b: named entries ascending by lower-cased name,
\* entries without a name (missing or null) after every named entry.
InNameOrder(a, b) ==
    IF HasName(a) THEN ~HasName(b) \/ ~StrLess(Lower(b.name), Lower(a.name))
    ELSE ~HasName(b)

Elements(s) == {s[i] : i \in 1..Len(s)}

\* C12: when upstream answers the owned-games call with a list of games,
\* get_owned_games returns success and a permutation of that list, sorted
\* ascending by lower-cased name, the entries whose name is missing or null
\* after every named entry.
C12_SortedByName ==
    \A p \in Procs :
        Fetched(p) =>
            /\ HasEvent(p, "get_owned_games", TRUE)
            /\ Len(rf[p].result) = Len(rf[p].upstream)
            /\ Elements(rf[p].result) = Elements(rf[p].upstream)
            /\ \A i, j \in 1..Len(rf[p].result) :
                    i < j => InNameOrder(rf[p].result[i], rf[p].result[j])

\* C12 for the lists that have no null name: the call succeeded, and the
\* entry without a name still stands before a name that is greater than "z".
C12_NamedOrMissing ==
    \A p \in Procs :
        HasEvent(p, "get_owned_games", TRUE) =>
            \A i, j \in 1..Len(rf[p].result) :
                i < j => InNameOrder(rf[p].result[i], rf[p].result[j])

\* The invocation has returned success, the invocation before it returned
\* success too, and upstream delivered the same owned-games list to both.
SecondOfTwo(p) ==
    /\ rf[p].pc = "done"
    /\ rf[p].ret.kind = "return" /\ rf[p].ret.success
    /\ last_run.success
    /\ rf[p].upstream = last_run.upstream

\* Every key of the DLC document as it was before the invocation is a key
\* of the document now, with the value it had.
KeysKept(p) ==
    \A k \in DOMAIN rf[p].pre.dlc_file.doc.dlc :
        /\ dlc_file.st = "ok"
        /\ k \in DOMAIN dlc_file.doc.dlc
        /\ dlc_file.doc.dlc[k] = rf[p].pre.dlc_file.doc.dlc[k]

GamesKept(p) ==
    /\ library_file.st = "ok"
    /\ library_file.doc.games = rf[p].pre.library_file.doc.games

BothOver == \A p \in Procs : rf[p].pc = "done"

\* C14: when two refreshes have run interleaved, both have returned (none
\* was ended by an exception), and each of library.json and dlc.json holds
\* exactly what the last save of it that succeeded wrote (for dlc.json the
\* whole map of that save, merged with no other).
C14_LastSaveWins ==
    BothOver =>
        /\ \A p \in Procs : rf[p].ret.kind = "return"
        /\ last_saved.library_file.st = "ok" => library_file = last_saved.library_file
        /\ last_saved.dlc_file.st = "ok" => dlc_file = last_saved.dlc_file

\* C14 where no save broke off part-way: a key that one refresh saved is
\* absent from dlc.json because the other refresh saved its own map later.
C14_LostUpdate ==
    /\ BothOver
    /\ library_file.st = "ok" /\ dlc_file.st = "ok"
    /\ dlc_file = last_saved.dlc_file
    /\ \E p \in Procs :
        /\ HasEvent(p, "save_dlc_cache", TRUE)
        /\ DOMAIN rf[p].current_dlc_map \ DOMAIN dlc_file.doc.dlc # {}

Unreadable(file) == file.st = "missing" \/ file.st = "corrupt"

\* C15: for each of the four documents, a load of a file that is missing
\* or that does not parse returns the default (blank credentials, a library
\* of no games with timestamp 0, the empty DLC map, the empty log) and does
\* not raise; no refresh is ended by an exception of a load.
C15_LoadsDefault ==
    /\ Unreadable(config_file) =>
        /\ ~load_config(config_file).raised
        /\ Blank(load_config(config_file).doc.steam_api_key)
        /\ Blank(load_config(config_file).doc.steam_id)
    /\ Unreadable(library_file) =>
        load_library_cache(library_file) = [raised |-> FALSE, doc |-> DefaultLibrary]
    /\ Unreadable(dlc_file) =>
        load_dlc_cache(dlc_file) = [raised |-> FALSE, doc |-> DefaultDlc]
    /\ Unreadable(completed_file) =>
        load_completed_log(completed_file) = [raised |-> FALSE, doc |-> DefaultCompleted]
    /\ \A p \in Procs : rf[p].ret.kind # "raise"

\* The positions of a log whose entry has not the id.
Kept(log, log_id) == {j \in 1..Len(log) : log[j].id # log_id}

\* log is old without the entries that have the id, the others in the
\* order they had.
IsOldWithout(log, old, log_id) ==
    /\ Len(log) = Cardinality(Kept(old, log_id))
    /\ \A i \in 1..Len(log) :
        \E j \in Kept(old, log_id) :
            /\ Cardinality({k \in Kept(old, log_id) : k <= j}) = i
            /\ log[i] = old[j]

\* C16 as stated: DELETE /log/<id> for an id no entry has is answered 404
\* and leaves completed.json as it was; for an id that entries have, the
\* log afterwards is the log before without exactly those entries, the
\* others in their order.
C16_DeleteById ==
    out.op = "api_delete_log_entry" =>
        IF Kept(LogBefore, out.req) = 1..Len(LogBefore)
        THEN out.status = 404 /\ completed_file = out.before
        ELSE completed_file.st = "ok" /\ IsOldWithout(Log, LogBefore, out.req)

\* C16, amended: the same where the handler's save of the new log
\* succeeded. The handler does not look at what the save returned: it
\* answers 200 for an id that exists, and when the save failed the file is
\* as it was (refused) or holds no parseable log (broken off).
C16_DeleteByIdIfSaved ==
    out.op = "api_delete_log_entry" =>
        IF Kept(LogBefore, out.req) = 1..Len(LogBefore)
        THEN out.status = 404 /\ completed_file = out.before
        ELSE /\ out.status = 200
             /\ out.saved = "written" =>
                    completed_file.st = "ok" /\ IsOldWithout(Log, LogBefore, out.req)
             /\ out.saved = "refused" => completed_file = out.before
             /\ out.saved = "truncated" => completed_file.st = "corrupt"

\* A delete removed the first of two entries and kept the other.
C16_Witness ==
    /\ out.op = "api_delete_log_entry" /\ out.status = 200 /\ out.saved = "written"
    /\ Len(LogBefore) = 2 /\ Len(Log) = 1
    /\ LogBefore[1].id = out.req

\* The games of library.json as the handlers read them.
LibGames == load_library_cache(library_file).doc.games

StatsAnswered == out.op = "api_completion_stats" /\ out.status = 200

\* The owned games (positions in the library) whose appid, as a string, is
\* the appid of an entry of the log with the given is_dlc_expansion.
NamedBy(flag) ==
    {i \in 1..Len(LibGames) :
        \E j \in 1..Len(Log) :
            Log[j].is_dlc_expansion = flag /\ Log[j].appid = Str(LibGames[i].appid)}

\* C17 as stated: completed_count is the value computed from the log
\* without its entries marked is_dlc_expansion.
C17_ExpansionsNotCounted ==
    StatsAnswered =>
        out.body.completed_count =
            CompletedCount(LibGames,
                CompletedAppids(SelectSeq(Log, LAMBDA entry : ~entry.is_dlc_expansion)))

\* C17, amended: is_dlc_expansion is not read. completed_count is the
\* number of owned games named by an entry that is no expansion, plus the
\* number of owned games named by expansion entries only.
C17_ExpansionsCounted ==
    StatsAnswered =>
        out.body.completed_count =
            Cardinality(NamedBy(FALSE)) + Cardinality(NamedBy(TRUE) \ NamedBy(FALSE))

\* The only entry for an owned game is marked is_dlc_expansion, and the
\* game is counted.
C17_Witness ==
    /\ StatsAnswered
    /\ NamedBy(TRUE) \ NamedBy(FALSE) # {}
    /\ out.body.completed_count = 1

\* C19: total_games is the number of games of library.json; completed_count
\* is the number of those games whose str(appid) is in the set of the
\* appids of the log's entries, so that two entries for one appid count
\* once, and 0 <= completed_count <= total_games.
C19_Stats ==
    StatsAnswered =>
        /\ out.body.total_games = Len(LibGames)
        /\ out.body.completed_count =
            Cardinality({i \in 1..Len(LibGames) :
                Str(LibGames[i].appid) \in {Log[j].appid : j \in 1..Len(Log)}})
        /\ 0 <= out.body.completed_count
        /\ out.body.completed_count <= out.body.total_games

\* Two owned games, two entries for the appid of one of them: counted once.
C19_Witness ==
    /\ StatsAnswered
    /\ out.body.total_games = 2
    /\ out.body.completed_count = 1
    /\ \E i, j \in 1..Len(Log) : i # j /\ Log[i].appid = Log[j].appid
                                   /\ Log[i].appid = Str(LibGames[1].appid)

\* The invocation has returned its summary message.
Summarised(p) ==
    rf[p].pc = "done" /\ rf[p].ret.kind = "return" /\ rf[p].ret.success

\* C18: the "newly checked" count of the summary is the number of games
\* whose appid was set in the DLC map in this pass, a failed lookup adding
\* nothing; when the save of the DLC document succeeded, it is the number
\* of keys of dlc.json after the pass minus the number before.
C18_NewlyChecked ==
    \A p \in Procs :
        Summarised(p) =>
            /\ rf[p].ret.dlc_fetch_count =
                    Cardinality(DOMAIN rf[p].current_dlc_map \ DOMAIN rf[p].loaded)
            /\ rf[p].ret.dlc_fetch_count + Cardinality(FailedLookups(rf[p].events))
                    <= CountEvents(p, "get_app_details")
            /\ HasEvent(p, "save_dlc_cache", TRUE) =>
                    rf[p].ret.dlc_fetch_count =
                        Cardinality(DOMAIN dlc_file.doc.dlc)
                            - Cardinality(DOMAIN rf[p].pre.dlc_file.doc.dlc)

\* A pass that found keys, set at least one more, had a lookup fail and
\* saved the DLC document.
C18_Witness ==
    \E p \in Procs :
        /\ Summarised(p)
        /\ HasEvent(p, "save_dlc_cache", TRUE)
        /\ rf[p].ret.dlc_fetch_count >= 1
        /\ FailedLookups(rf[p].events) # {}
        /\ DOMAIN rf[p].loaded # {}

\* The positions of the games whose lower-cased name contains query.
Matching(games, query) ==
    {i \in 1..Len(games) :
        games[i].name_state = "present" /\ Contains(query, Lower(games[i].name))}

\* names are the names of the first n games at the positions, in the order
\* of the library.
AreFirstNames(names, games, positions, n) ==
    /\ Len(names) = (IF Cardinality(positions) < n THEN Cardinality(positions) ELSE n)
    /\ \A k \in 1..Len(names) :
        \E i \in positions :
            /\ Cardinality({j \in positions : j <= i}) = k
            /\ names[k] = games[i].name

\* The names of the results of the search that was answered.
ResultNames ==
    IF out.op = "api_search_games"
    THEN [k \in 1..Len(out.body.results) |-> out.body.results[k].name]
    ELSE out.body.results

GameSearchAnswered ==
    /\ out.op \in {"api_search_games", "library_search"}
    /\ out.req.search_type = "game"
    /\ out.status = 200

\* C20 as stated: a search for a query that is not empty returns exactly
\* the games of the library whose name contains the query, compared
\* case-insensitively, in the order of the library, cut to the first
\* `limit` matches (the code's only limit is SearchLimit).
C20_SearchAsStated ==
    (GameSearchAnswered /\ out.req.query # <<>>) =>
        AreFirstNames(ResultNames, LibGames,
                      Matching(LibGames, Lower(out.req.query)), SearchLimit)

\* C20, amended: api_search_games lower-cases and strips the query,
\* returns nothing for fewer than MinQuery characters, and otherwise every
\* match with its appid, in the order of the library, cut nowhere;
\* library_search returns the names of the matches of the lower-cased
\* query cut to SearchLimit, and for the empty query the first SampleLimit
\* names.
C20_Search ==
    /\ (GameSearchAnswered /\ out.op = "api_search_games") =>
        LET q == Strip(Lower(out.req.query))
        IN  IF Len(q) < MinQuery THEN out.body.results = <<>>
            ELSE /\ AreFirstNames(ResultNames, LibGames, Matching(LibGames, q),
                                  Len(LibGames))
                 /\ \A k \in 1..Len(out.body.results) :
                        \E i \in Matching(LibGames, q) :
                            out.body.results[k] = GameResult(LibGames[i])
    /\ (GameSearchAnswered /\ out.op = "library_search") =>
        LET q == Lower(out.req.query)
        IN  IF q = <<>>
            THEN AreFirstNames(ResultNames, LibGames, 1..Len(LibGames), SampleLimit)
            ELSE AreFirstNames(ResultNames, LibGames, Matching(LibGames, q), SearchLimit)

\* api_search_games answered a query with more than SearchLimit matches,
\* all of them returned.
C20_Witness ==
    /\ GameSearchAnswered /\ out.op = "api_search_games"
    /\ Len(out.body.results) > SearchLimit

LibraryAnswered == out.op = "api_get_library" /\ out.status = 200

Documents == <<library_file, dlc_file, config_file, completed_file>>

\* C21: GET /library answers one row per game of library.json, in the
\* order of the document, each with the game's appid as a string and
\* is_completed true exactly when that string is the appid of an entry of
\* the completed log; the step that answers changes none of the documents.
C21_LibraryRows ==
    /\ [](LibraryAnswered =>
            /\ Len(out.body.results) = Len(LibGames)
            /\ \A i \in 1..Len(LibGames) :
                /\ out.body.results[i].appid = Str(LibGames[i].appid)
                /\ out.body.results[i].is_completed =
                        (\E j \in 1..Len(Log) : Log[j].appid = Str(LibGames[i].appid)))
    /\ [][out'.op = "api_get_library" => Documents' = Documents]_vars

\* Two rows were answered, the first completed and the second not, while
\* the log also holds an entry whose appid is the number 220.
C21_Witness ==
    /\ LibraryAnswered
    /\ Len(out.body.results) = 2
    /\ out.body.results[1].is_completed /\ ~out.body.results[2].is_completed
    /\ \E j \in 1..Len(Log) : Log[j].appid = IntId(220)

\* The body of the answer parsed and is without the nested games list.
LacksGames(resp) ==
    \/ resp.kind = "bad_shape"
    \/ resp.kind = "ok" /\ (~resp.has_data \/ ~resp.has_response \/ ~resp.has_games)

\* What the invocation got back from get_owned_games: (success, message).
OwnedOutcome(p) ==
    <<HasEvent(p, "get_owned_games", TRUE), rf[p].message>>

\* The failure of the matching kind came back for what the GET produced.
KindMatches(p) ==
    LET resp == rf[p].response
    IN  /\ OwnedOutcome(p)[1] \/ OwnedOutcome(p)[2] \in OwnedErrorMessages
        /\ (resp.kind = "http_error" /\ resp.status \in {401, 403})
                => OwnedOutcome(p) = <<FALSE, MsgAccessDenied>>
        /\ (resp.kind = "http_error" /\ resp.status = 400)
                => OwnedOutcome(p) = <<FALSE, MsgBadRequest>>
        /\ (resp.kind = "http_error" /\ resp.status \notin {400, 401, 403})
                => OwnedOutcome(p) = <<FALSE, MsgHttp>>
        /\ resp.kind = "network_error" => OwnedOutcome(p) = <<FALSE, MsgNetwork>>
        /\ LacksGames(resp) => OwnedOutcome(p) = <<FALSE, MsgInvalid>>
        /\ OwnedOutcome(p)[1] => (resp.kind = "ok" /\ ~LacksGames(resp))

\* C22: get_owned_games hands back a success or one of its failures (it
\* never raises): for HTTP 401 or 403 the access-denied failure, for HTTP
\* 400 the bad-request failure, for any other HTTP error the HTTP failure,
\* for a transport failure the network failure, for a body without the
\* nested games list the invalid-response failure; nothing but a delivered
\* games list comes back as success.
C22_FailureKinds == \A p \in Procs : Fetched(p) => KindMatches(p)

\* C22 for the bodies whose "response" member is an object and whose
\* "games" member, when there is one, is a list.
C22_FailureKindsOfObjects ==
    \A p \in Procs : (Fetched(p) /\ rf[p].response.kind # "bad_shape") => KindMatches(p)

\* The step is one of a refresh_library_cache invocation that was under way.
RefreshStep == \E p \in Procs : rf[p].pc \notin {"idle", "done"} /\ rf'[p] # rf[p]

\* The step is a POST on /setup that was given both credentials and went
\* on to save them.
SetupStep ==
    \E p \in Procs :
        /\ rf[p].pc = "idle"
        /\ rf'[p].caller = "api_setup_post"
        /\ ~Blank(rf'[p].config.steam_api_key) /\ ~Blank(rf'[p].config.steam_id)

\* C23: no step of a refresh, whatever the refresh comes to, changes
\* config.json or completed.json, and an invocation that is under way or
\* over finds both as they were when it was entered; config.json changes
\* only in the step of a POST on /setup that was given both credentials.
C23_RefreshKeepsCredentialsAndLog ==
    /\ [][RefreshStep => (config_file' = config_file /\ completed_file' = completed_file)]_vars
    /\ [](\A p \in Procs : Entered(p) =>
                /\ config_file = rf[p].pre.config_file
                /\ completed_file = rf[p].pre.completed_file)
    /\ [][config_file' # config_file => SetupStep]_vars

\* A refresh called by /setup has written both of its documents and is
\* over, the credentials being the ones /setup saved and the log holding an
\* entry.
C23_Witness ==
    \E p \in Procs :
        /\ rf[p].pc = "done" /\ rf[p].caller = "api_setup_post"
        /\ HasEvent(p, "save_library_cache", TRUE) /\ HasEvent(p, "save_dlc_cache", TRUE)
        /\ config_file = File("ok", Config(Cred(TRUE, "x"), Cred(TRUE, "x")))
        /\ Len(Log) > 0

IsKey(n) == dlc_file.st = "ok" /\ StrId(n) \in DOMAIN dlc_file.doc.dlc

\* C24: refresh after refresh against the same upstream library, every
\* save written: each owned game whose lookup succeeds whenever it is made
\* is a key of dlc.json in the end, also when the lookups of the games
\* sorted before it fail, or are not recorded, every time.
C24_NoStarvation == \A n \in FreeNums : <>IsKey(n)

\* C24 where the lookups of the games sorted before succeed and are
\* recorded: the quota moves on and the last games become keys.
C24_NoStarvationWhenRecorded == \A n \in FreeNums : (store_mode = "dlc") => <>IsKey(n)

\* The key of dlc.json is a key after the step, with the value it had.
KeyKeptByStep(k) ==
    /\ dlc_file'.st = "ok"
    /\ k \in DOMAIN dlc_file'.doc.dlc
    /\ dlc_file'.doc.dlc[k] = dlc_file.doc.dlc[k]

SetupSaved == out.op = "setup" /\ out.status = 302

\* C26: after a POST on /setup of app.py that saved both credentials,
\* library.json holds no games and last_updated 0; and the request on /
\* that follows such a POST calls the owned-games endpoint with the
\* credentials that were saved.
C26_SetupClearsCache ==
    /\ SetupSaved =>
            /\ Len(app_load_library_cache(library_file).games) = 0
            /\ app_load_library_cache(library_file).last_updated = 0
    /\ (out.op = "index_or_setup" /\ out.req.after_setup) =>
            /\ out.req.fetched
            /\ config_file = File("ok", out.req.config)

\* The second half of C26 alone: the request on / that follows.
C26_DashboardFetches ==
    (out.op = "index_or_setup" /\ out.req.after_setup) => out.req.fetched

\* The library of SpecSteady as get_owned_games hands it on, and the
\* appids (as strings) of its first n games.
SteadyLibrary == get_owned_games(OwnedOk(Descending(MaxGames, 1))).result
FirstIds(n) == {Str(SteadyLibrary[i].appid) : i \in 1..n}

AtMost(n, limit) == IF n < limit THEN n ELSE limit

DlcKeys == DOMAIN dlc_file.doc.dlc

\* C27: with the store answering every lookup with a DLC list, the same N
\* games delivered every time, dlc.json empty at first and every save
\* written: the keys of dlc.json are at all times the first min(50 * k, N)
\* games of the sorted library for some k; a refresh that found c keys
\* leaves min(c + 50, N) (so k refreshes leave min(50 * k, N)), having
\* called app-details once for each key it added and reporting that
\* number; a refresh that found all N as keys makes no call and reports 0.
C27_QuotaProgress ==
    store_mode = "dlc" =>
        /\ dlc_file.st = "ok"
        /\ \E k \in 0..MaxGames : DlcKeys = FirstIds(AtMost(Quota * k, MaxGames))
        /\ \A p \in Procs : PassOver(p) =>
                LET c == Cardinality(DOMAIN rf[p].pre.dlc_file.doc.dlc)
                IN  /\ Cardinality(DlcKeys) = AtMost(c + Quota, MaxGames)
                    /\ CountEvents(p, "get_app_details") = Cardinality(DlcKeys) - c
                    /\ rf[p].ret.dlc_fetch_count = Cardinality(DlcKeys) - c
                    /\ c = MaxGames =>
                            /\ CountEvents(p, "get_app_details") = 0
                            /\ rf[p].ret.dlc_fetch_count = 0

\* A refresh that found every game as a key is over.
C27_Witness ==
    /\ store_mode = "dlc"
    /\ \E p \in Procs :
        /\ PassOver(p)
        /\ Cardinality(DOMAIN rf[p].pre.dlc_file.doc.dlc) = MaxGames
        /\ CountEvents(p, "get_app_details") = 0
        /\ rf[p].ret.dlc_fetch_count = 0
        /\ DlcKeys = FirstIds(MaxGames)

\* The appid is a string.
Canonical(appid) == appid[1] = "str"

\* C28: every appid on disk is a string (the games of library.json, the
\* keys of dlc.json, the entries of completed.json), and so is the appid a
\* POST on /log hands to the duplicate test: no appid is stored or compared
\* as the number upstream or the request delivered.
C28_CanonicalIds ==
    /\ library_file.st = "ok" =>
            \A i \in 1..Len(library_file.doc.games) :
                Canonical(library_file.doc.games[i].appid)
    /\ dlc_file.st = "ok" => \A k \in DOMAIN dlc_file.doc.dlc : Canonical(k)
    /\ \A i \in 1..Len(Log) : Canonical(Log[i].appid)
    /\ (out.op = "api_log_completion" /\ out.status \in {201, 409}) =>
            Canonical(out.req.appid)

\* The part of C28 on dlc.json and on the invocation's map: every key is
\* the str() of an appid.
C28_DlcKeysCanonical ==
    /\ dlc_file.st = "ok" => \A k \in DOMAIN dlc_file.doc.dlc : Canonical(k)
    /\ \A p \in Procs : \A k \in DOMAIN rf[p].current_dlc_map : Canonical(k)

====
